---- MODULE Spec2Model ----
(***************************************************************************)
(* Model of the Google Play Store comments API: the Express router of      *)
(* routes/comments.js, the validation middleware, and the review-retrieval *)
(* pipeline of services/playStoreAPI.js (fetchComments, the two retrieval  *)
(* strategies, the extraction engine and the sample generator).            *)
(*                                                                         *)
(* JavaScript values are records tagged by their type (field t), numbers   *)
(* carry NaN explicitly, and strings that the code inspects character by   *)
(* character are modelled either as sequences of characters (numeric       *)
(* strings) or run-length encoded (application identifiers, whose length   *)
(* limit of 100 is a program constant).                                    *)
(***************************************************************************)
EXTENDS Integers, Sequences, FiniteSets, TLC

\* ------------------------------------------------------------------------
\* Bounds of the model
\* ------------------------------------------------------------------------

\* longest appIds list of the freely chosen batch requests
MaxIds == 2

\* most calls of the extraction engine and the sample generator in a row
MaxCalls == 3

\* ------------------------------------------------------------------------
\* JavaScript numbers (integers and NaN) and the operations the code uses
\* ------------------------------------------------------------------------

Num(v) == [nan |-> FALSE, v |-> v]

NaN == [nan |-> TRUE, v |-> 0]

Min(a, b) == IF a <= b THEN a ELSE b

Max(a, b) == IF a >= b THEN a ELSE b

\* n >= x for an integer n and a JavaScript number x: false when x is NaN
JsGeq(n, x) == ~x.nan /\ n >= x.v

\* Math.min(x, n): NaN when x is NaN
MathMin(x, n) == IF x.nan THEN NaN ELSE Num(Min(x.v, n))

\* Array.prototype.slice(0, end): the prefix of s that slice keeps.  A NaN end
\* counts as 0, a negative end counts from the end of the array.
SliceTo(s, end) ==
    LET n == Len(s)
        k == IF end.nan THEN 0
             ELSE IF end.v < 0 THEN Max(n + end.v, 0)
             ELSE Min(end.v, n)
    IN  SubSeq(s, 1, k)

\* ------------------------------------------------------------------------
\* JavaScript values that arrive in requests
\* ------------------------------------------------------------------------

Undefined == [t |-> "undefined"]

Null == [t |-> "null"]

\* a number value; x is Num(v) or NaN
JsNumber(x) == [t |-> "number", num |-> x]

\* a string given by its characters
JsString(chars) == [t |-> "string", chars |-> chars]

Digits == {"0", "1", "2", "3", "4", "5", "6", "7", "8", "9"}

DigitVal(c) ==
    CASE c = "0" -> 0 [] c = "1" -> 1 [] c = "2" -> 2 [] c = "3" -> 3
      [] c = "4" -> 4 [] c = "5" -> 5 [] c = "6" -> 6 [] c = "7" -> 7
      [] c = "8" -> 8 [] c = "9" -> 9

RECURSIVE SkipSpaces(_)
SkipSpaces(chars) ==
    IF chars # <<>> /\ Head(chars) = " " THEN SkipSpaces(Tail(chars)) ELSE chars

\* the value of the longest prefix of digits, -1 when there is no digit
RECURSIVE DigitsValue(_, _, _)
DigitsValue(chars, acc, seen) ==
    IF chars # <<>> /\ Head(chars) \in Digits
    THEN DigitsValue(Tail(chars), 10 * acc + DigitVal(Head(chars)), TRUE)
    ELSE IF seen THEN acc ELSE -1

\* parseInt(x): a number is converted to its decimal string and read back; a
\* string is read after leading blanks as an optional sign and the longest
\* run of digits, anything after it ignored; no digit at all gives NaN.
parseInt(x) ==
    CASE x.t = "number" -> x.num
      [] x.t = "string" ->
           LET body == SkipSpaces(x.chars)
               neg  == body # <<>> /\ Head(body) = "-"
               rest == IF body # <<>> /\ Head(body) \in {"-", "+"}
                       THEN Tail(body) ELSE body
               mag  == DigitsValue(rest, 0, FALSE)
           IN  IF mag < 0 THEN NaN ELSE Num(IF neg THEN 0 - mag ELSE mag)
      [] OTHER -> NaN

\* ------------------------------------------------------------------------
\* Application identifiers: run-length encoded strings
\* ------------------------------------------------------------------------

\* n >= 1 copies of the character c
Run(c, n) == [c |-> c, n |-> n]

AppIdString(runs) == [t |-> "string", runs |-> runs]

Letters == {"a", "b", "c", "w", "Z"}

AlphaNum == Letters \cup Digits

IdChars == AlphaNum \cup {".", "_", "-"}

RECURSIVE RunsLen(_)
RunsLen(runs) == IF runs = <<>> THEN 0 ELSE Head(runs).n + RunsLen(Tail(runs))

\* String.prototype.includes(cc) for a doubled character cc
IncludesDouble(runs, c) ==
    \E i \in 1..Len(runs) :
        /\ runs[i].c = c
        /\ \/ runs[i].n >= 2
           \/ i < Len(runs) /\ runs[i + 1].c = c

\* String.prototype.trim()
RECURSIVE TrimLeft(_)
TrimLeft(runs) ==
    IF runs # <<>> /\ Head(runs).c = " " THEN TrimLeft(Tail(runs)) ELSE runs

RECURSIVE TrimRight(_)
TrimRight(runs) ==
    IF runs # <<>> /\ runs[Len(runs)].c = " "
    THEN TrimRight(SubSeq(runs, 1, Len(runs) - 1)) ELSE runs

Trim(runs) == TrimRight(TrimLeft(runs))

\* quantifier bounds of the identifier pattern: {2,99} after the first character
IdTailMin == 2

IdTailMax == 99

\* /^[a-zA-Z0-9][a-zA-Z0-9._-]{2,99}$/.test(s)
appIdPattern(runs) ==
    /\ runs # <<>>
    /\ Head(runs).c \in AlphaNum
    /\ \A i \in 1..Len(runs) : runs[i].c \in IdChars
    /\ RunsLen(runs) - 1 >= IdTailMin
    /\ RunsLen(runs) - 1 <= IdTailMax

\* ------------------------------------------------------------------------
\* Validation middleware
\* ------------------------------------------------------------------------

\* what a middleware does: call next(), or answer the request itself
CallNext == [next |-> TRUE, status |-> 0, error |-> ""]

Reject(status, error) == [next |-> FALSE, status |-> status, error |-> error]

\* !appId: undefined or the empty string
Falsy(x) == x.t \in {"undefined", "null"} \/ (x.t = "string" /\ x.runs = <<>>)

\* as validateAppId, but without the check for doubled separators
validateAppId_patternOnly(appId) ==
    IF Falsy(appId) THEN Reject(400, "App ID is required")
    ELSE IF ~appIdPattern(appId.runs) THEN Reject(400, "Invalid app ID format")
    ELSE CallNext

validateAppId(appId) ==
    IF Falsy(appId) THEN Reject(400, "App ID is required")
    ELSE IF ~appIdPattern(appId.runs) THEN Reject(400, "Invalid app ID format")
    ELSE IF \/ IncludesDouble(appId.runs, ".")
            \/ IncludesDouble(appId.runs, "_")
            \/ IncludesDouble(appId.runs, "-")
         THEN Reject(400, "Invalid app ID format")
    ELSE CallNext

validSortOptions == {"recent", "rating", "helpfulness"}

MaxSingleLimit == 200

validateCommentParams(query) ==
    LET limitNum == parseInt(query.limit)
    IN  IF /\ query.limit.t # "undefined"
           /\ (limitNum.nan \/ limitNum.v < 1 \/ limitNum.v > MaxSingleLimit)
        THEN Reject(400, "Invalid limit parameter")
        ELSE IF query.sort.t # "undefined" /\ query.sort.s \notin validSortOptions
        THEN Reject(400, "Invalid sort parameter")
        ELSE CallNext

MaxBatchApps == 10

MaxBatchLimit == 100

\* Array.isArray(x)
IsArray(x) == x.t = "array"

\* the first index (from 1) of items that validateBatchRequest refuses, 0 if none
RECURSIVE FirstBadAppId(_, _)
FirstBadAppId(items, i) ==
    IF i > Len(items) THEN 0
    ELSE LET appId == items[i]
         IN  IF \/ appId.t # "string"
                \/ Trim(appId.runs) = <<>>
                \/ ~appIdPattern(Trim(appId.runs))
                \/ IncludesDouble(appId.runs, ".")
                \/ IncludesDouble(appId.runs, "_")
                \/ IncludesDouble(appId.runs, "-")
             THEN i
             ELSE FirstBadAppId(items, i + 1)

validateBatchRequest(body) ==
    LET appIds == body.appIds
        limitNum == parseInt(body.limit)
    IN  IF ~IsArray(appIds) THEN Reject(400, "appIds must be an array")
        ELSE IF Len(appIds.items) = 0 THEN Reject(400, "appIds array cannot be empty")
        ELSE IF Len(appIds.items) > MaxBatchApps
        THEN Reject(400, "Maximum 10 apps allowed per batch request")
        ELSE IF FirstBadAppId(appIds.items, 1) # 0
        THEN LET i == FirstBadAppId(appIds.items, 1)
                 appId == appIds.items[i]
             IN  IF appId.t # "string" \/ Trim(appId.runs) = <<>>
                 THEN Reject(400, "Invalid app ID at index " \o ToString(i - 1))
                 ELSE Reject(400, "Invalid app ID format at index " \o ToString(i - 1))
        ELSE IF /\ body.limit.t # "undefined"
                /\ (limitNum.nan \/ limitNum.v < 1 \/ limitNum.v > MaxBatchLimit)
        THEN Reject(400, "Invalid limit parameter")
        ELSE IF body.sort.t # "undefined" /\ body.sort.s \notin validSortOptions
        THEN Reject(400, "Invalid sort parameter")
        ELSE CallNext

\* ------------------------------------------------------------------------
\* Markup and the extraction engine
\* ------------------------------------------------------------------------

\* A response body is either not a string (axios hands over a parsed object)
\* or markup, modelled as the sequence of the elements the four patterns can
\* match, in document order:
\*   div        a <div ...>inner</div> block; class/testid say whether its class
\*              or data-testid attribute contains "review"; text is the block
\*              with tags stripped and blanks collapsed, nav whether it names
\*              Games, Apps and Movies; rating is the number after a rating
\*              key (-1: no such key), author the quoted value after an author
\*              key ("": no such key)
\*   script     a <script> block holding "reviews": [ ... ]
\*   reviewText an occurrence of "reviewText": "value"
NotAString == [t |-> "object"]

Markup(elements) == [t |-> "string", elements |-> elements]

Div(class, testid, text, nav, rating, author) ==
    [k |-> "div", class |-> class, testid |-> testid, text |-> text,
     nav |-> nav, rating |-> rating, author |-> author]

Script(entries) == [k |-> "script", entries |-> entries]

\* one object of an embedded "reviews" array; "" and 0 stand for a field that
\* is absent
Review(text, reviewText, rating, starRating, author, userName) ==
    [text |-> text, reviewText |-> reviewText, rating |-> rating,
     starRating |-> starRating, date |-> "", reviewDate |-> "",
     author |-> author, userName |-> userName, helpful |-> 0, helpfulCount |-> 0]

ReviewText(value) == [k |-> "reviewText", value |-> value]

\* the date the code stamps on records that carry none
Today == "today"

\* the four patterns, with the words their source text contains
reviewPatterns ==
    << [id |-> 1, source |-> {"div", "class", "review"}],
       [id |-> 2, source |-> {"script", "reviews"}],
       [id |-> 3, source |-> {"div", "data-testid", "review"}],
       [id |-> 4, source |-> {"reviewText"}] >>

RECURSIVE SelectElements(_, _)
SelectElements(elements, pattern) ==
    IF elements = <<>> THEN <<>>
    ELSE LET e == Head(elements)
             hit == CASE pattern.id = 1 -> e.k = "div" /\ e.class
                      [] pattern.id = 2 -> e.k = "script"
                      [] pattern.id = 3 -> e.k = "div" /\ e.testid
                      [] pattern.id = 4 -> e.k = "reviewText"
         IN  (IF hit THEN <<e>> ELSE <<>>) \o SelectElements(Tail(elements), pattern)

\* html.match(pattern) with the g flag: the whole text of every match, in
\* document order (capture groups are not returned); <<>> stands for null
HtmlMatch(html, pattern) == SelectElements(html.elements, pattern)

\* the text of one whole match of pattern 4
FullMatchText(m) == "\"reviewText\": \"" \o m.value \o "\""

\* JSON.parse of the text of a match: only the text of a JSON array parses
JsonParse(m) ==
    IF m.k = "jsonArray" THEN [ok |-> TRUE, value |-> m.entries]
    ELSE [ok |-> FALSE, value |-> <<>>]

\* as extractCommentFromHTML, but with the rating taken as found
extractCommentFromHTML_unclamped(m) ==
    IF m.text = "" \/ Len(m.text) < 10 THEN <<>>
    ELSE IF m.nav THEN <<>>
    ELSE LET rating == IF m.rating >= 0 THEN m.rating ELSE 0
             author == IF m.author # "" THEN m.author ELSE "Unknown"
         IN  << [text |-> m.text, rating |-> rating,
                 date |-> Today, author |-> author, helpful |-> 0,
                 source |-> "html"] >>

extractCommentFromHTML(m) ==
    IF m.text = "" \/ Len(m.text) < 10 THEN <<>>
    ELSE IF m.nav THEN <<>>
    ELSE LET rating == IF m.rating >= 0 THEN m.rating ELSE 0
             author == IF m.author # "" THEN m.author ELSE "Unknown"
         IN  << [text |-> m.text,
                 rating |-> IF rating >= 1 /\ rating <= 5 THEN rating ELSE 0,
                 date |-> Today, author |-> author, helpful |-> 0,
                 source |-> "html"] >>

\* a || b, where none is the falsy value of the type ("" or 0)
OrElse(a, b, none) == IF a # none THEN a ELSE b

\* reviewsData.forEach of the embedded-data branch
RECURSIVE EachReview(_, _, _)
EachReview(entries, comments, limit) ==
    IF entries = <<>> THEN comments
    ELSE LET review == Head(entries)
             next == IF JsGeq(Len(comments), limit) THEN comments
                     ELSE IF review.text # "" \/ review.reviewText # ""
                     THEN Append(comments,
                            [text |-> OrElse(review.text, review.reviewText, ""),
                             rating |-> OrElse(review.rating, review.starRating, 0),
                             date |-> OrElse(OrElse(review.date, review.reviewDate, ""),
                                             Today, ""),
                             author |-> OrElse(OrElse(review.author, review.userName, ""),
                                               "Unknown", ""),
                             helpful |-> OrElse(review.helpful, review.helpfulCount, 0),
                             source |-> "api"])
                     ELSE comments
         IN  EachReview(Tail(entries), next, limit)

\* matches.forEach((match, index) => ...) of the bare-text-field branch
RECURSIVE EachReviewText(_, _, _, _)
EachReviewText(matches, index, comments, limit) ==
    IF index > Len(matches) THEN comments
    ELSE LET next == IF JsGeq(Len(comments), limit) THEN comments
                     ELSE IF index - 1 > 0
                     THEN Append(comments,
                            [text |-> FullMatchText(matches[index]), rating |-> 0,
                             date |-> Today, author |-> "Unknown",
                             helpful |-> 0, source |-> "api"])
                     ELSE comments
         IN  EachReviewText(matches, index + 1, next, limit)

\* as EachContainer, but with every container pushed as a record, neither its
\* text nor the record looked at
RECURSIVE EachContainer_unchecked(_, _, _)
EachContainer_unchecked(matches, comments, limit) ==
    IF matches = <<>> THEN comments
    ELSE LET m == Head(matches)
             next == IF JsGeq(Len(comments), limit) THEN comments
                     ELSE Append(comments,
                            [text |-> m.text,
                             rating |-> IF m.rating >= 1 /\ m.rating <= 5
                                        THEN m.rating ELSE 0,
                             date |-> Today,
                             author |-> IF m.author # "" THEN m.author ELSE "Unknown",
                             helpful |-> 0, source |-> "html"])
         IN  EachContainer_unchecked(Tail(matches), next, limit)

\* matches.forEach(match => ...) of the container branch: a container is
\* pushed when extractCommentFromHTML gave a record and its text is not empty
RECURSIVE EachContainer(_, _, _)
EachContainer(matches, comments, limit) ==
    IF matches = <<>> THEN comments
    ELSE LET comment == extractCommentFromHTML(Head(matches))
             next == IF JsGeq(Len(comments), limit) THEN comments
                     ELSE IF comment # <<>> /\ comment[1].text # ""
                     THEN comments \o comment
                     ELSE comments
         IN  EachContainer(Tail(matches), next, limit)

processReviewMatches(matches, pattern, limit) ==
    IF "reviews" \in pattern.source
    THEN \* JSON.parse(matches[1]): the second whole match, undefined if none
         LET parsed == IF Len(matches) >= 2 THEN JsonParse(matches[2])
                       ELSE [ok |-> FALSE, value |-> <<>>]
         IN  IF parsed.ok THEN EachReview(parsed.value, <<>>, limit) ELSE <<>>
    ELSE IF "reviewText" \in pattern.source
    THEN EachReviewText(matches, 1, <<>>, limit)
    ELSE EachContainer(matches, <<>>, limit)

\* as ExtractFrom, but stopping at the first pattern that gave any record
RECURSIVE ExtractFrom_firstOnly(_, _, _, _)
ExtractFrom_firstOnly(html, i, comments, limit) ==
    IF i > Len(reviewPatterns) THEN comments
    ELSE LET matches == HtmlMatch(html, reviewPatterns[i])
         IN  IF matches = <<>> THEN ExtractFrom_firstOnly(html, i + 1, comments, limit)
             ELSE LET all == comments
                               \o processReviewMatches(matches, reviewPatterns[i], limit)
                  IN  IF all # <<>> THEN all
                      ELSE ExtractFrom_firstOnly(html, i + 1, all, limit)

\* the for loop over reviewPatterns, from pattern number i on
RECURSIVE ExtractFrom(_, _, _, _)
ExtractFrom(html, i, comments, limit) ==
    IF i > Len(reviewPatterns) THEN comments
    ELSE LET matches == HtmlMatch(html, reviewPatterns[i])
         IN  IF matches = <<>> THEN ExtractFrom(html, i + 1, comments, limit)
             ELSE LET all == comments
                               \o processReviewMatches(matches, reviewPatterns[i], limit)
                  IN  IF JsGeq(Len(all), limit) THEN all
                      ELSE ExtractFrom(html, i + 1, all, limit)

\* the patterns of the for loop whose matches were handed to
\* processReviewMatches, from pattern number i on
RECURSIVE PatternsRun(_, _, _, _)
PatternsRun(html, i, comments, limit) ==
    IF i > Len(reviewPatterns) THEN <<>>
    ELSE LET matches == HtmlMatch(html, reviewPatterns[i])
         IN  IF matches = <<>> THEN PatternsRun(html, i + 1, comments, limit)
             ELSE LET all == comments
                               \o processReviewMatches(matches, reviewPatterns[i], limit)
                  IN  IF JsGeq(Len(all), limit) THEN <<i>>
                      ELSE <<i>> \o PatternsRun(html, i + 1, all, limit)

\* as extractReviewsFromHTML, but with the failure of JSON.parse not caught in
\* processReviewMatches: it ends the loop over the patterns and is caught here
extractReviewsFromHTML_abort(html, limit) ==
    IF html.t # "string" THEN <<>>
    ELSE IF HtmlMatch(html, reviewPatterns[2]) # <<>> THEN <<>>
    ELSE SliceTo(ExtractFrom(html, 1, <<>>, limit), limit)

extractReviewsFromHTML(html, limit) ==
    IF html.t # "string" THEN <<>>   \* html.match is not a function: caught
    ELSE SliceTo(ExtractFrom(html, 1, <<>>, limit), limit)

\* ------------------------------------------------------------------------
\* Sample generator
\* ------------------------------------------------------------------------

Sample(text, rating, date, author, helpful) ==
    [text |-> text, rating |-> rating, date |-> date, author |-> author,
     helpful |-> helpful, source |-> "sample"]

\* the ten hand-written reviews (texts cut to their first words)
sampleReviews ==
    << Sample("This app is absolutely amazing!", 5, "2024-01-15", "Sarah Johnson", 24),
       Sample("Great app overall, but", 4, "2024-01-14", "Mike Chen", 18),
       Sample("I've been using this app for months", 5, "2024-01-13", "Emily Rodriguez", 31),
       Sample("The app is okay, but", 3, "2024-01-12", "David Kim", 12),
       Sample("This is the best app I've ever used!", 5, "2024-01-11", "Lisa Thompson", 42),
       Sample("Not bad, but could be better.", 3, "2024-01-10", "Robert Wilson", 8),
       Sample("Excellent app with outstanding performance!", 5, "2024-01-09", "Jennifer Lee", 27),
       Sample("The app has potential but needs work.", 2, "2024-01-08", "Alex Martinez", 15),
       Sample("I'm really impressed with this app!", 5, "2024-01-07", "Chris Anderson", 33),
       Sample("Good app, but the interface", 4, "2024-01-06", "Maria Garcia", 19) >>

generateSampleReviews(appId, limit) ==
    SliceTo(sampleReviews, MathMin(limit, Len(sampleReviews)))

\* ------------------------------------------------------------------------
\* Retrieval strategies
\* ------------------------------------------------------------------------

\* What the upstream does with one request: the connection fails, the request
\* times out, or a response arrives with a status and a body.
NetworkError == [kind |-> "network error", status |-> 0, data |-> NotAString]

Timeout == [kind |-> "timeout", status |-> 0, data |-> NotAString]

Http(status, data) == [kind |-> "response", status |-> status, data |-> data]

\* axios.get: rejects on no response and, by its default validateStatus, on a
\* status outside 200..299
AxiosRejects(outcome) ==
    outcome.kind # "response" \/ outcome.status < 200 \/ outcome.status > 299

getSortParameter(sort) ==
    CASE sort = "recent" -> "0"
      [] sort = "rating" -> "1"
      [] sort = "helpfulness" -> "2"
      [] OTHER -> "0"

buildAppPageUrl(appId, sort, language, country) ==
    [path |-> "/store/apps/details", id |-> appId, hl |-> language, gl |-> country,
     sort |-> getSortParameter(sort), showAllReviews |-> FALSE]

AlternativeUrl(appId, language, country) ==
    [path |-> "/store/apps/details", id |-> appId, hl |-> language, gl |-> country,
     sort |-> "", showAllReviews |-> TRUE]

\* as fetchReviewsFromPage, but taking whatever response arrives, its status
\* not looked at (validateStatus accepting every status)
fetchReviewsFromPage_anyStatus(outcome, limit) ==
    IF outcome.kind # "response" THEN <<>>
    ELSE extractReviewsFromHTML(outcome.data, limit)

\* what fetchReviewsFromPage resolves to once its request has ended
fetchReviewsFromPage(outcome, limit) ==
    IF AxiosRejects(outcome) THEN <<>>
    ELSE IF outcome.status # 200 THEN <<>>
    ELSE extractReviewsFromHTML(outcome.data, limit)

\* what fetchReviewsAlternative resolves to once its request has ended
fetchReviewsAlternative(outcome, limit) ==
    IF AxiosRejects(outcome) THEN <<>>
    ELSE IF outcome.status # 200 THEN <<>>
    ELSE extractReviewsFromHTML(outcome.data, limit)

\* a Symbol used as appId; `${appId}` in a template literal throws a TypeError
SymbolId == [t |-> "symbol"]

TemplateThrows(appId) == appId.t = "symbol"

\* ------------------------------------------------------------------------
\* State
\* ------------------------------------------------------------------------

VARIABLES
    request,   \* the HTTP request, or the direct call of fetchComments, under way
    upstream,  \* per fetch, how the upstream behaves for its identifier:
               \* "any", "unreachable" or "serving"
    phase,     \* "pending", "running" (fetches under way), "responded", "settled";
               \* "engine" when the engine and the generator are called on their own
    tasks,     \* one fetchComments call per identifier of the request
    wire,      \* the upstream requests issued so far, in the order issued
    results,   \* results[] of the batch handler
    errors,    \* errors[] of the batch handler
    response,  \* the HTTP response sent, NoResponse before
    sent,      \* how many responses the handler has sent (res.json calls)
    calls,     \* the calls made of the extraction engine and the sample
               \* generator on their own, each with what it returned
    clock      \* the calendar date, as an index into Days

vars ==
    <<request, upstream, phase, tasks, wire, results, errors, response, sent,
      calls, clock>>

NoResponse == [status |-> 0, success |-> FALSE, error |-> "", data |-> [k |-> "none"]]

\* ------------------------------------------------------------------------
\* fetchComments
\* ------------------------------------------------------------------------

DefaultLimit == 50

\* options after the default for a missing argument
OptionsOrDefault(options) ==
    IF options.t = "undefined"
    THEN [t |-> "object", limit |-> Undefined, sort |-> Undefined]
    ELSE options

\* The state of one fetchComments call: pc is where it stands ("primary" and
\* "secondary": awaiting that retrieval; "returned"; "threw"), comments what
\* it returned and by the source that supplied it; primary and secondary record
\* how many records each retrieval resolved to (-1: not resolved).

\* fetchComments up to its first await: the options are destructured (a
\* TypeError for null, outside the try block) and the primary request issued
fetchCommentsStart(appId, options) ==
    IF options.t = "null"
    THEN [appId |-> appId, limit |-> NaN, sort |-> "", pc |-> "threw",
          by |-> "", comments |-> <<>>, primary |-> -1, secondary |-> -1]
    ELSE LET o == OptionsOrDefault(options)
         IN  [appId |-> appId,
              limit |-> IF o.limit.t = "undefined" THEN Num(DefaultLimit) ELSE o.limit.num,
              sort |-> IF o.sort.t = "undefined" THEN "recent" ELSE o.sort.s,
              pc |-> "primary", by |-> "", comments |-> <<>>,
              primary |-> -1, secondary |-> -1]

\* as fetchCommentsAfterPrimary, but the secondary retrieval is tried whatever
\* the primary yielded
fetchCommentsAfterPrimary_always(task, comments) ==
    [task EXCEPT !.pc = "secondary", !.primary = Len(comments)]

\* as fetchCommentsAfterPrimary, but with a cache on the singleton that is
\* not keyed: the records of the first fetch that returned serve every later one
fetchCommentsAfterPrimary_shared(task, comments) ==
    LET done == {j \in 1..Len(tasks) : tasks[j].pc = "returned"}
        kept == IF done = {} THEN comments
                ELSE tasks[CHOOSE j \in done : \A k \in done : j <= k].comments
    IN  IF Len(kept) = 0
        THEN [task EXCEPT !.pc = "secondary", !.primary = 0]
        ELSE [task EXCEPT !.pc = "returned", !.by = "primary", !.comments = kept,
                          !.primary = Len(kept)]

\* fetchComments once the primary retrieval has resolved to comments
fetchCommentsAfterPrimary(task, comments) ==
    IF Len(comments) = 0
    THEN [task EXCEPT !.pc = "secondary", !.primary = 0]
    ELSE [task EXCEPT !.pc = "returned", !.by = "primary", !.comments = comments,
                      !.primary = Len(comments)]

\* as fetchCommentsAfterSecondary, but without the sample fallback
fetchCommentsAfterSecondary_noSample(task, comments) ==
    [task EXCEPT !.pc = "returned", !.by = "secondary", !.comments = comments,
                 !.secondary = Len(comments)]

\* as fetchCommentsAfterSecondary, but raising when no source has a record
fetchCommentsAfterSecondary_raise(task, comments) ==
    IF Len(comments) = 0
    THEN [task EXCEPT !.pc = "threw", !.secondary = 0]
    ELSE [task EXCEPT !.pc = "returned", !.by = "secondary", !.comments = comments,
                      !.secondary = Len(comments)]

\* as fetchCommentsAfterSecondary, but a result shorter than limit is filled
\* up with sample records
fetchCommentsAfterSecondary_padded(task, comments) ==
    LET padded == SliceTo(comments \o generateSampleReviews(task.appId, task.limit),
                          task.limit)
    IN  IF Len(comments) = 0
        THEN [task EXCEPT !.pc = "returned", !.by = "sample", !.secondary = 0,
                          !.comments = generateSampleReviews(task.appId, task.limit)]
        ELSE [task EXCEPT !.pc = "returned", !.by = "secondary", !.comments = padded,
                          !.secondary = Len(comments)]

\* fetchComments once the secondary retrieval has resolved to comments
fetchCommentsAfterSecondary(task, comments) ==
    IF Len(comments) = 0
    THEN [task EXCEPT !.pc = "returned", !.by = "sample", !.secondary = 0,
                      !.comments = generateSampleReviews(task.appId, task.limit)]
    ELSE [task EXCEPT !.pc = "returned", !.by = "secondary", !.comments = comments,
                      !.secondary = Len(comments)]

Settled(task) == task.pc \in {"returned", "threw"}

\* as AllSettled, but with the promises not awaited: the handler goes on at once
AllSettled_noAwait(ts) == TRUE

\* as AllSettled, but resolved with the first promise (Promise.race)
AllSettled_race(ts) == \E i \in 1..Len(ts) : Settled(ts[i])

\* Promise.all over the per-identifier promises has resolved
AllSettled(ts) == \A i \in 1..Len(ts) : Settled(ts[i])

PrimaryRequest(i, task) ==
    [task |-> i, strategy |-> "primary", open |-> TRUE,
     url |-> buildAppPageUrl(task.appId, task.sort, "en", "US")]

SecondaryRequest(i, task) ==
    [task |-> i, strategy |-> "secondary", open |-> TRUE,
     url |-> AlternativeUrl(task.appId, "en", "US")]

\* as Closed, but the request of a fetch stays open when it has ended
Closed_stillOpen(w, i) == w

\* the wire with the open request of fetch i closed
Closed(w, i) ==
    [n \in 1..Len(w) |-> IF w[n].task = i /\ w[n].open
                          THEN [w[n] EXCEPT !.open = FALSE] ELSE w[n]]

\* ------------------------------------------------------------------------
\* Router and handlers
\* ------------------------------------------------------------------------

\* the middleware each route is registered with
RouteMiddleware(route) ==
    CASE route = "single" -> <<"validateAppId">>
      [] route = "stats" -> <<"validateAppId">>
      [] route = "batch" -> <<>>
      [] OTHER -> <<>>

ApplyMiddleware(name, req) ==
    CASE name = "validateAppId" -> validateAppId(req.appId)
      [] name = "validateCommentParams" -> validateCommentParams(req.query)
      [] name = "validateBatchRequest" -> validateBatchRequest(req.body)

\* Express runs the chain in order until one middleware does not call next()
RECURSIVE RunChain(_, _)
RunChain(chain, req) ==
    IF chain = <<>> THEN CallNext
    ELSE LET r == ApplyMiddleware(Head(chain), req)
         IN  IF r.next THEN RunChain(Tail(chain), req) ELSE r

SingleDefaultLimit == 50

StatsDefaultLimit == 100

BatchDefaultLimit == 20

OrDefault(x, d) == IF x.t = "undefined" THEN d ELSE x

\* the options a handler passes to fetchComments
HandlerOptions(req) ==
    CASE req.route = "single" ->
           [t |-> "object",
            limit |-> JsNumber(parseInt(OrDefault(req.query.limit,
                                                  JsNumber(Num(SingleDefaultLimit))))),
            sort |-> OrDefault(req.query.sort, [t |-> "string", s |-> "recent"])]
      [] req.route = "stats" ->
           [t |-> "object",
            limit |-> JsNumber(parseInt(OrDefault(req.query.limit,
                                                  JsNumber(Num(StatsDefaultLimit))))),
            sort |-> [t |-> "string", s |-> "recent"]]
      [] req.route = "batch" ->
           [t |-> "object",
            limit |-> JsNumber(parseInt(OrDefault(req.body.limit,
                                                  JsNumber(Num(BatchDefaultLimit))))),
            sort |-> OrDefault(req.body.sort, [t |-> "string", s |-> "recent"])]
      [] OTHER -> req.options

BadRequest(error) ==
    [status |-> 400, success |-> FALSE, error |-> error, data |-> [k |-> "none"]]

ServerError(error) ==
    [status |-> 500, success |-> FALSE, error |-> error, data |-> [k |-> "none"]]

\* as BatchStructureError, but without the check of the number of identifiers
BatchStructureError_noMax(body) ==
    IF ~IsArray(body.appIds) \/ Len(body.appIds.items) = 0
    THEN "appIds array is required and must not be empty"
    ELSE ""

\* the structural checks at the top of the batch handler
BatchStructureError(body) ==
    IF ~IsArray(body.appIds) \/ Len(body.appIds.items) = 0
    THEN "appIds array is required and must not be empty"
    ELSE IF Len(body.appIds.items) > MaxBatchApps
    THEN "Maximum 10 apps allowed per batch request"
    ELSE ""

\* ---- statistics -------------------------------------------------------

RECURSIVE SumRatings(_)
SumRatings(comments) ==
    IF comments = <<>> THEN 0 ELSE Head(comments).rating + SumRatings(Tail(comments))

\* comment.date.substring(0, 7): the dates records carry are those of the
\* sample reviews, all of January 2024, and the date of the extraction
Month(date) == IF date = Today THEN "this month" ELSE "2024-01"

DateDistribution(comments) ==
    [mo \in {Month(comments[n].date) : n \in 1..Len(comments)} |->
        Cardinality({n \in 1..Len(comments) : Month(comments[n].date) = mo})]

\* as RatingDistribution, but counting only the records that have a rating
RatingDistribution_ratedOnly(comments) ==
    [r \in {comments[n].rating : n \in 1..Len(comments)} \ {0} |->
        Cardinality({n \in 1..Len(comments) : comments[n].rating = r})]

RatingDistribution(comments) ==
    [r \in {comments[n].rating : n \in 1..Len(comments)} |->
        Cardinality({n \in 1..Len(comments) : comments[n].rating = r})]

\* (total / count).toFixed(2), as the number of hundredths: the nearest one,
\* the larger of two equally near
ToFixed2(total, count) == (200 * total + count) \div (2 * count)

Stats(comments) ==
    [totalComments |-> Len(comments),
     ratingDistribution |-> RatingDistribution(comments),
     dateDistribution |-> DateDistribution(comments),
     averageRating |-> IF Len(comments) > 0
                       THEN [fixed |-> TRUE,
                             hundredths |-> ToFixed2(SumRatings(comments), Len(comments))]
                       ELSE [fixed |-> FALSE, hundredths |-> 0],
     totalRating |-> SumRatings(comments)]

\* ---- responses --------------------------------------------------------

SingleResponse(req, task) ==
    [status |-> 200, success |-> TRUE, error |-> "",
     data |-> [k |-> "single", appId |-> req.appId,
               totalComments |-> Len(task.comments), comments |-> task.comments,
               limit |-> task.limit, sort |-> task.sort]]

StatsResponse(req, task) ==
    [status |-> 200, success |-> TRUE, error |-> "",
     data |-> [k |-> "stats", appId |-> req.appId, stats |-> Stats(task.comments),
               sampleSize |-> Len(task.comments)]]

BatchResponse(req, res, errs) ==
    [status |-> 200, success |-> TRUE, error |-> "",
     data |-> [k |-> "batch", totalApps |-> Len(req.body.appIds.items),
               successful |-> Len(res), failed |-> Len(errs),
               results |-> res, errors |-> errs]]

\* as ResultEntry, but with the comments kept in a variable that the callbacks
\* of all identifiers share
ResultEntry_shared(task) ==
    LET last == tasks[Len(tasks)]
    IN  [appId |-> task.appId, success |-> TRUE,
         totalComments |-> Len(last.comments), comments |-> last.comments]

ResultEntry(task) ==
    [appId |-> task.appId, success |-> TRUE,
     totalComments |-> Len(task.comments), comments |-> task.comments]

ErrorEntry(task) ==
    [appId |-> task.appId, success |-> FALSE, error |-> "TypeError"]

\* as Push, but with the entries keyed by appId: an entry takes the place of
\* the one the array holds for the same identifier
Push_keyed(arr, entry) ==
    IF \E n \in 1..Len(arr) : arr[n].appId = entry.appId
    THEN [n \in 1..Len(arr) |-> IF arr[n].appId = entry.appId THEN entry ELSE arr[n]]
    ELSE Append(arr, entry)

\* results.push(entry), errors.push(entry)
Push(arr, entry) == Append(arr, entry)

\* what follows `await fetchComments(...)` in the handler of the request, for
\* the fetch that has just settled as task
AfterFetch(task) ==
    CASE request.route = "single" ->
           /\ response' = IF task.pc = "threw" THEN ServerError("Failed to fetch comments")
                          ELSE SingleResponse(request, task)
           /\ sent' = sent + 1
           /\ phase' = "responded"
           /\ UNCHANGED <<results, errors>>
      [] request.route = "stats" ->
           /\ response' = IF task.pc = "threw"
                          THEN ServerError("Failed to fetch comment statistics")
                          ELSE StatsResponse(request, task)
           /\ sent' = sent + 1
           /\ phase' = "responded"
           /\ UNCHANGED <<results, errors>>
      [] request.route = "batch" ->
           /\ results' = IF task.pc = "threw" THEN results
                         ELSE Push(results, ResultEntry(task))
           /\ errors' = IF task.pc = "threw" THEN Push(errors, ErrorEntry(task))
                        ELSE errors
           /\ UNCHANGED <<phase, response, sent>>
      [] OTHER ->
           /\ phase' = "settled"
           /\ UNCHANGED <<results, errors, response, sent>>

\* a fetch that has not settled leaves the handler waiting
Continue(task) ==
    IF Settled(task) THEN AfterFetch(task)
    ELSE UNCHANGED <<phase, results, errors, response, sent>>

\* ------------------------------------------------------------------------
\* Inputs
\* ------------------------------------------------------------------------

\* identifiers: com.whatsapp, com.instagram.android, a1b, a-b_c.d, a run of
\* 100 letters; and ab, a run of 101 letters, invalid..id, a__b, a--b, .abc,
\* a!bc, which the identifier grammar excludes
ComWhatsapp == AppIdString(<<Run("c", 3), Run(".", 1), Run("w", 8)>>)

ComInstagram ==
    AppIdString(<<Run("c", 3), Run(".", 1), Run("a", 9), Run(".", 1), Run("a", 7)>>)

ValidAppIds ==
    { ComWhatsapp, ComInstagram,
      AppIdString(<<Run("a", 1), Run("1", 1), Run("b", 1)>>),
      AppIdString(<<Run("a", 1), Run("-", 1), Run("b", 1), Run("_", 1),
                    Run("c", 1), Run(".", 1), Run("Z", 1)>>),
      AppIdString(<<Run("a", 100)>>) }

InvalidDotDot == AppIdString(<<Run("a", 7), Run(".", 2), Run("b", 2)>>)

InvalidAppIds ==
    { InvalidDotDot,
      AppIdString(<<Run("a", 1), Run("b", 1)>>),
      AppIdString(<<Run("a", 101)>>),
      AppIdString(<<Run("a", 1), Run("_", 2), Run("b", 1)>>),
      AppIdString(<<Run("a", 1), Run("-", 2), Run("b", 1)>>),
      AppIdString(<<Run(".", 1), Run("a", 3)>>),
      AppIdString(<<Run("a", 1), Run("!", 1), Run("b", 2)>>) }

\* a :appId path parameter is never empty: the route does not match otherwise
PathAppIds == ValidAppIds \cup InvalidAppIds

StringValue(s) == [t |-> "string", s |-> s]

\* limit as it arrives in a query string
QueryLimits ==
    { Undefined,
      JsString(<<"1">>), JsString(<<"5">>), JsString(<<"2", "0", "0">>),
      JsString(<<"2", "0", "1">>), JsString(<<"9", "9", "9">>), JsString(<<"0">>),
      JsString(<<"-", "1">>), JsString(<<"a", "b", "c">>), JsString(<<"3", "x">>) }

QuerySorts == {Undefined, StringValue("rating"), StringValue("newest")}

NoQuery == [limit |-> Undefined, sort |-> Undefined]

NoBody == [appIds |-> Undefined, limit |-> Undefined, sort |-> Undefined]

GetRequest(route, appId, limit, sort) ==
    [route |-> route, appId |-> appId, options |-> Undefined,
     query |-> [limit |-> limit, sort |-> sort], body |-> NoBody]

PostBatch(appIds, limit, sort) ==
    [route |-> "batch", appId |-> Undefined, options |-> Undefined, query |-> NoQuery,
     body |-> [appIds |-> appIds, limit |-> limit, sort |-> sort]]

\* a direct call of the exported fetchComments(appId, options)
Call(appId, options) ==
    [route |-> "call", appId |-> appId, options |-> options,
     query |-> NoQuery, body |-> NoBody]

Array(items) == [t |-> "array", items |-> items]

Options(limit) == [t |-> "object", limit |-> limit, sort |-> Undefined]

CallLimits ==
    { Undefined, JsNumber(NaN) } \cup
    { JsNumber(Num(v)) : v \in {-11, -10, -1, 0, 1, 2, 3, 10, 11, 50} }

CallOptions == {Undefined, Null} \cup {Options(l) : l \in CallLimits}

BatchAppIds == {ComWhatsapp, ComInstagram, InvalidDotDot}

\* the lists of 1..n identifiers
RECURSIVE IdLists(_)
IdLists(n) ==
    IF n = 0 THEN {<<>>}
    ELSE LET shorter == IdLists(n - 1)
         IN  shorter \cup {Append(l, id) : l \in {x \in shorter : Len(x) = n - 1},
                                           id \in BatchAppIds}

\* limit and sort as they arrive in a batch body
BatchParams ==
    { <<Undefined, Undefined>>,
      <<JsNumber(Num(3)), StringValue("rating")>>,
      <<JsNumber(Num(101)), Undefined>>,
      <<JsNumber(Num(0)), Undefined>>,
      <<JsString(<<"2">>), StringValue("newest")>> }

BatchRequests ==
    { PostBatch(Array(l), p[1], p[2]) : l \in IdLists(MaxIds), p \in BatchParams }
    \cup { PostBatch(Undefined, Undefined, Undefined),
           PostBatch(StringValue("com.whatsapp"), Undefined, Undefined),
           PostBatch(Array([i \in 1..(MaxBatchApps + 1) |-> ComWhatsapp]),
                     Undefined, Undefined) }

Requests ==
    { Call(ComWhatsapp, o) : o \in CallOptions }
    \cup { GetRequest("single", a, l, srt) :
             a \in PathAppIds, l \in QueryLimits, srt \in QuerySorts }
    \cup { GetRequest("stats", a, l, Undefined) : a \in PathAppIds, l \in QueryLimits }
    \cup BatchRequests

\* response bodies
BodyEmpty == Markup(<<>>)

BodyDivs ==
    Markup(<< Div(TRUE, FALSE, "Great app, works well", FALSE, 5, "Ann"),
              Div(TRUE, FALSE, "Bad", FALSE, -1, ""),
              Div(TRUE, FALSE, "", FALSE, 3, "Eve"),
              Div(TRUE, FALSE, "Games Apps Movies Books", TRUE, -1, ""),
              Div(TRUE, FALSE, "Terrible update, ruined it", FALSE, 9, "") >>)

BodyScript ==
    Markup(<< Script(<< Review("Works fine for me", "", 4, 0, "Cy", "") >>),
              Script(<< Review("", "Awful, one star too many", 9, 0, "", "Di") >>) >>)

BodyMixed ==
    Markup(<< Div(TRUE, TRUE, "Love this app so much", FALSE, 4, "Bob"),
              ReviewText("nice"), ReviewText("love it"), ReviewText("meh") >>)

Bodies == {NotAString, BodyEmpty, BodyDivs, BodyScript, BodyMixed}

Unreachable == {NetworkError, Timeout}

AnyOutcome ==
    Unreachable \cup {Http(404, NotAString), Http(204, BodyEmpty)}
        \cup {Http(200, b) : b \in Bodies}

\* what a request can end with, by the behaviour of the upstream
Outcomes(behaviour) ==
    CASE behaviour = "unreachable" -> Unreachable
      [] behaviour = "serving" -> {Http(200, BodyDivs)}
      [] OTHER -> AnyOutcome

\* the number of fetches a request can start
NumFetches(req) ==
    IF req.route = "batch"
    THEN IF IsArray(req.body.appIds) THEN Len(req.body.appIds.items) ELSE 0
    ELSE 1

\* ------------------------------------------------------------------------
\* Actions
\* ------------------------------------------------------------------------

\* The request is routed: the route's middleware runs, then the handler up to
\* its first await, which issues the primary request of every fetch.  A direct
\* call of fetchComments runs up to its first await.
Dispatch ==
    /\ phase = "pending"
    /\ LET mw == RunChain(RouteMiddleware(request.route), request)
           structure == IF request.route = "batch"
                        THEN BatchStructureError(request.body) ELSE ""
           ids == IF request.route = "batch" THEN request.body.appIds.items
                  ELSE <<request.appId>>
           started == [i \in 1..Len(ids) |->
                          fetchCommentsStart(ids[i], HandlerOptions(request))]
       IN  IF ~mw.next
           THEN /\ response' = BadRequest(mw.error)
                /\ sent' = sent + 1
                /\ phase' = "responded"
                /\ UNCHANGED <<tasks, wire, results, errors>>
           ELSE IF structure # ""
           THEN /\ response' = BadRequest(structure)
                /\ sent' = sent + 1
                /\ phase' = "responded"
                /\ UNCHANGED <<tasks, wire, results, errors>>
           ELSE /\ tasks' = started
                /\ wire' = SelectSeq([i \in 1..Len(ids) |-> PrimaryRequest(i, started[i])],
                                     LAMBDA r : started[r.task].pc = "primary")
                /\ IF \E i \in 1..Len(ids) : Settled(started[i])
                   THEN \* only a direct call can settle here: one fetch
                        /\ phase' = "settled"
                        /\ UNCHANGED <<results, errors, response, sent>>
                   ELSE /\ phase' = "running"
                        /\ UNCHANGED <<results, errors, response, sent>>
    /\ UNCHANGED <<request, upstream, calls, clock>>

\* The primary request of fetch i ends with some outcome; fetchReviewsFromPage
\* resolves and fetchComments goes on to return or to issue the secondary.
\* A fetch under way goes on whatever its handler has done in the meantime.
PrimaryResponse(i) ==
    /\ tasks[i].pc = "primary"
    /\ \E outcome \in Outcomes(upstream[i]) :
          LET task == fetchCommentsAfterPrimary(tasks[i],
                          fetchReviewsFromPage(outcome, tasks[i].limit))
          IN  /\ tasks' = [tasks EXCEPT ![i] = task]
              /\ wire' = IF task.pc = "secondary"
                         THEN Append(Closed(wire, i), SecondaryRequest(i, task))
                         ELSE Closed(wire, i)
              /\ Continue(task)
    /\ UNCHANGED <<request, upstream, calls, clock>>

\* The secondary request of fetch i ends; fetchComments returns.
SecondaryResponse(i) ==
    /\ tasks[i].pc = "secondary"
    /\ \E outcome \in Outcomes(upstream[i]) :
          LET task == fetchCommentsAfterSecondary(tasks[i],
                          fetchReviewsAlternative(outcome, tasks[i].limit))
          IN  /\ tasks' = [tasks EXCEPT ![i] = task]
              /\ wire' = Closed(wire, i)
              /\ Continue(task)
    /\ UNCHANGED <<request, upstream, calls, clock>>

\* Promise.all has resolved: the batch handler builds and sends its response.
BatchRespond ==
    /\ phase = "running"
    /\ request.route = "batch"
    /\ AllSettled(tasks)
    /\ response' = BatchResponse(request, results, errors)
    /\ sent' = sent + 1
    /\ phase' = "responded"
    /\ UNCHANGED <<request, upstream, tasks, wire, results, errors, calls, clock>>

Next ==
    \/ Dispatch
    \/ \E i \in 1..Len(tasks) : PrimaryResponse(i)
    \/ \E i \in 1..Len(tasks) : SecondaryResponse(i)
    \/ BatchRespond

Init ==
    /\ request \in Requests
    /\ upstream = [i \in 1..NumFetches(request) |-> "any"]
    /\ phase = "pending"
    /\ tasks = <<>>
    /\ wire = <<>>
    /\ results = <<>>
    /\ errors = <<>>
    /\ response = NoResponse
    /\ sent = 0
    /\ calls = <<>>
    /\ clock = 1

Spec == Init /\ [][Next]_vars

\* A batch of ten valid identifiers, the upstream unreachable for exactly one
\* of them and serving a page with reviews for the others.
TenAppIds(u) ==
    [i \in 1..MaxBatchApps |->
        IF i = u THEN AppIdString(<<Run("c", 3), Run(".", 1), Run("b", 4)>>)
        ELSE IF i % 2 = 0 THEN ComWhatsapp ELSE ComInstagram]

InitBatch10 ==
    /\ \E u \in {1, MaxBatchApps} :
          /\ request = PostBatch(Array(TenAppIds(u)), Undefined, Undefined)
          /\ upstream = [i \in 1..MaxBatchApps |->
                            IF i = u THEN "unreachable" ELSE "serving"]
    /\ phase = "pending"
    /\ tasks = <<>>
    /\ wire = <<>>
    /\ results = <<>>
    /\ errors = <<>>
    /\ response = NoResponse
    /\ sent = 0
    /\ calls = <<>>
    /\ clock = 1

SpecBatch10 == InitBatch10 /\ [][Next]_vars

\* ------------------------------------------------------------------------
\* The extraction engine and the sample generator called on their own
\* ------------------------------------------------------------------------

\* the calendar dates of the run
Days == <<"2026-11-02", "2026-11-03">>

\* as IsoDate, but without split('T')[0]: the full time stamp of the instant
IsoDate_instant(day, instant) == Days[day] \o "T00:00:0" \o ToString(instant)

\* new Date().toISOString().split('T')[0] on the given day, at any instant
IsoDate(day, instant) == Days[day]

\* the records of an extraction, with the date the extraction stamped
OnDate(comments, date) ==
    [n \in 1..Len(comments) |->
        IF comments[n].date = Today THEN [comments[n] EXCEPT !.date = date]
        ELSE comments[n]]

\* a page with a review container, two script blocks whose text JSON.parse
\* refuses, a container found by its data-testid, and three bare text fields
BodyBroken ==
    Markup(<< Div(TRUE, FALSE, "Solid app, does the job", FALSE, 4, "Flo"),
              Script(<< Review("Works fine for me", "", 4, 0, "Cy", "") >>),
              Script(<< Review("", "Awful, one star too many", 9, 0, "", "Di") >>),
              Div(FALSE, TRUE, "Keeps crashing on start", FALSE, 1, ""),
              ReviewText("nice"), ReviewText("love it"), ReviewText("meh") >>)

\* a page that holds three bare text fields and nothing else the patterns match
BodyTexts == Markup(<< ReviewText("nice"), ReviewText("love it"), ReviewText("meh") >>)

EngineMarkups ==
    {NotAString, BodyEmpty, BodyDivs, BodyMixed, BodyBroken, BodyScript, BodyTexts}

EngineLimits == {NaN} \cup {Num(v) : v \in {-1, 0, 1, 3, 10, 11}}

\* the arguments of the calls under study
EngineCall(appId, html, limit) ==
    [route |-> "engine", appId |-> appId, html |-> html, limit |-> limit]

\* the other arguments the calls in between are made with
OtherAppId == ComInstagram

OtherMarkup(html) == IF html = BodyDivs THEN BodyMixed ELSE BodyDivs

OtherLimit(limit) == IF limit = Num(3) THEN Num(1) ELSE Num(3)

Extracted(html, limit) ==
    [fn |-> "extractReviewsFromHTML", appId |-> Undefined, html |-> html,
     limit |-> limit, day |-> clock,
     ran |-> IF html.t = "string" THEN PatternsRun(html, 1, <<>>, limit) ELSE <<>>,
     result |-> OnDate(extractReviewsFromHTML(html, limit),
                       IsoDate(clock, Len(calls)))]

Generated(appId, limit) ==
    [fn |-> "generateSampleReviews", appId |-> appId, html |-> NotAString,
     limit |-> limit, day |-> clock, ran |-> <<>>,
     result |-> generateSampleReviews(appId, limit)]

\* extractReviewsFromHTML(html, limit) is called with the arguments under study
Extract ==
    /\ Len(calls) < MaxCalls
    /\ calls' = Append(calls, Extracted(request.html, request.limit))
    /\ UNCHANGED <<request, upstream, phase, tasks, wire, results, errors,
                   response, sent, clock>>

\* another extraction runs: another markup, or the same with another limit
ExtractOther ==
    /\ Len(calls) < MaxCalls
    /\ \/ calls' = Append(calls, Extracted(OtherMarkup(request.html), request.limit))
       \/ calls' = Append(calls, Extracted(request.html, OtherLimit(request.limit)))
    /\ UNCHANGED <<request, upstream, phase, tasks, wire, results, errors,
                   response, sent, clock>>

\* generateSampleReviews(appId, limit) is called with the arguments under study
Generate ==
    /\ Len(calls) < MaxCalls
    /\ calls' = Append(calls, Generated(request.appId, request.limit))
    /\ UNCHANGED <<request, upstream, phase, tasks, wire, results, errors,
                   response, sent, clock>>

\* it is called for another application
GenerateOther ==
    /\ Len(calls) < MaxCalls
    /\ calls' = Append(calls, Generated(OtherAppId, request.limit))
    /\ UNCHANGED <<request, upstream, phase, tasks, wire, results, errors,
                   response, sent, clock>>

\* the date changes
Midnight ==
    /\ clock < Len(Days)
    /\ clock' = clock + 1
    /\ UNCHANGED <<request, upstream, phase, tasks, wire, results, errors,
                   response, sent, calls>>

NextEngine == Extract \/ ExtractOther \/ Generate \/ GenerateOther \/ Midnight

InitEngine ==
    /\ request \in {EngineCall(ComWhatsapp, html, limit) :
                       html \in EngineMarkups, limit \in EngineLimits}
    /\ upstream = <<>>
    /\ phase = "engine"
    /\ tasks = <<>>
    /\ wire = <<>>
    /\ results = <<>>
    /\ errors = <<>>
    /\ response = NoResponse
    /\ sent = 0
    /\ calls = <<>>
    /\ clock = 1

SpecEngine == InitEngine /\ [][NextEngine]_vars

\* ------------------------------------------------------------------------
\* App information
\* ------------------------------------------------------------------------

\* Elements of a page that the patterns of extractAppInfo match:
\*   h1     an <h1 ...>text</h1> element, text given trimmed
\*   field  a key (developer, rating or totalRatings) followed by a colon and
\*          a value: a quoted string, or the characters of a number
\* The rating pattern also matches the rating key of a review container and
\* the rating or starRating key of an object of an embedded reviews array.
H1(text) == [k |-> "h1", text |-> text]

Labeled(key, value) == [k |-> "field", key |-> key, value |-> value]

\* html.match(pattern) without the g flag, found being the positions of the
\* elements the pattern matches: the first of them, <<>> (null) if none
FirstMatch(elements, found) ==
    IF found = {} THEN <<>>
    ELSE <<elements[CHOOSE n \in found : \A m \in found : n <= m]>>

\* the objects of a script block that hold a rating or a starRating key
RatedEntries(e) == SelectSeq(e.entries, LAMBDA r : r.rating # 0 \/ r.starRating # 0)

\* parseFloat of digits with at most one digit after the point, in tenths
parseFloat(chars) ==
    LET units == DigitsValue(chars, 0, FALSE)
        point == CHOOSE n \in 1..(Len(chars) + 1) : n = Len(chars) + 1 \/ chars[n] = "."
        tenth == IF point < Len(chars) THEN DigitVal(chars[point + 1]) ELSE 0
    IN  10 * units + tenth

\* the string 'unknown'
UnknownId == AppIdString(<<Run("Z", 7)>>)

\* the string 'toString', a property every object literal inherits
ToStringId == AppIdString(<<Run("Z", 8)>>)

\* the table of names, keyed by com.whatsapp, com.instagram.android,
\* com.twitter.android, com.facebook.katana and com.google.android.youtube
\* (in the last three, letters stand for those of the names)
appNames ==
    LET ComTwitter == AppIdString(<<Run("c", 3), Run(".", 1), Run("b", 7), Run(".", 1),
                                    Run("a", 7)>>)
        ComFacebook == AppIdString(<<Run("c", 3), Run(".", 1), Run("b", 8), Run(".", 1),
                                     Run("c", 6)>>)
        ComYoutube == AppIdString(<<Run("c", 3), Run(".", 1), Run("b", 6), Run(".", 1),
                                    Run("a", 7), Run(".", 1), Run("c", 7)>>)
    IN  [id \in {ComWhatsapp, ComInstagram, ComTwitter, ComFacebook, ComYoutube} |->
            CASE id = ComWhatsapp -> "WhatsApp Messenger"
              [] id = ComInstagram -> "Instagram"
              [] id = ComTwitter -> "Twitter"
              [] id = ComFacebook -> "Facebook"
              [] id = ComYoutube -> "YouTube"]

\* ratings are in tenths (4.2 is 42)
generateSampleAppInfo(appId) ==
    [name |-> IF appId \in DOMAIN appNames THEN appNames[appId]
              ELSE IF appId = ToStringId
              THEN "function toString() { [native code] }"
              ELSE "Sample App",
     developer |-> "Sample Developer", category |-> "Communication",
     rating |-> 42, totalRatings |-> 1500000, downloads |-> "1B+",
     size |-> "45MB", version |-> "2.23.45.78"]

extractAppInfo(html) ==
    IF html.t # "string" THEN generateSampleAppInfo(UnknownId)   \* html.match throws
    ELSE LET IsName(e) == e.k = "h1"
             IsDeveloper(e) == e.k = "field" /\ e.key = "developer"
             IsRating(e) == \/ e.k = "field" /\ e.key = "rating"
                            \/ e.k = "div" /\ e.rating >= 0
                            \/ e.k = "script" /\ RatedEntries(e) # <<>>
             IsTotal(e) == e.k = "field" /\ e.key = "totalRatings"
             at == 1..Len(html.elements)
             nameMatch == FirstMatch(html.elements, {n \in at : IsName(html.elements[n])})
             developerMatch ==
                 FirstMatch(html.elements, {n \in at : IsDeveloper(html.elements[n])})
             ratingMatch ==
                 FirstMatch(html.elements, {n \in at : IsRating(html.elements[n])})
             totalRatingsMatch ==
                 FirstMatch(html.elements, {n \in at : IsTotal(html.elements[n])})
         IN  [name |-> IF nameMatch # <<>> THEN nameMatch[1].text ELSE "Unknown",
              developer |-> IF developerMatch # <<>> THEN developerMatch[1].value
                            ELSE "Unknown",
              category |-> "Unknown",
              rating |-> IF ratingMatch = <<>> THEN 0
                         ELSE IF ratingMatch[1].k = "div" THEN 10 * ratingMatch[1].rating
                         ELSE IF ratingMatch[1].k = "script"
                         THEN LET r == RatedEntries(ratingMatch[1])[1]
                              IN  10 * (IF r.rating # 0 THEN r.rating ELSE r.starRating)
                         ELSE parseFloat(ratingMatch[1].value),
              totalRatings |-> IF totalRatingsMatch = <<>> THEN 0
                               ELSE parseInt(JsString(totalRatingsMatch[1].value)).v,
              downloads |-> "Unknown", size |-> "Unknown", version |-> "Unknown"]

\* what getAppInfo resolves to once its request has ended, or that it rejects:
\* for a Symbol the template literal of the URL throws, and so does the one
\* of the message in the catch block
getAppInfo(appId, outcome) ==
    IF TemplateThrows(appId)
    THEN [threw |-> TRUE, requests |-> 0, info |-> generateSampleAppInfo(UnknownId)]
    ELSE IF AxiosRejects(outcome) \/ outcome.status # 200
    THEN [threw |-> FALSE, requests |-> 1, info |-> generateSampleAppInfo(appId)]
    ELSE [threw |-> FALSE, requests |-> 1, info |-> extractAppInfo(outcome.data)]

\* ------------------------------------------------------------------------
\* The retrieval strategies and getAppInfo on their own
\* ------------------------------------------------------------------------

\* an application page with every field extractAppInfo looks for
BodyAppPage ==
    Markup(<< H1("WhatsApp Messenger"), Labeled("developer", "WhatsApp LLC"),
              Labeled("rating", <<"4", ".", "5">>),
              Labeled("totalRatings", <<"1", "2", "0">>) >>)

\* a page with a heading and a review container, no developer and no total
BodyAppPartial ==
    Markup(<< H1("Signal"), Div(TRUE, FALSE, "Solid app, does the job", FALSE, 4, "Flo") >>)

RetrievalOutcomes ==
    AnyOutcome \cup {Http(404, BodyDivs), Http(500, BodyAppPage), Http(200, BodyAppPage),
                     Http(200, BodyAppPartial)}

\* the arguments of the calls under study and what the upstream does with
\* the request a call sends
RetrievalCall(appId, outcome, limit) ==
    [route |-> "retrieval", appId |-> appId, outcome |-> outcome, limit |-> limit]

Retrieved(fn, appId, outcome, limit) ==
    [fn |-> fn, appId |-> appId, outcome |-> outcome, limit |-> limit,
     requests |-> IF TemplateThrows(appId) THEN 0 ELSE 1,
     threw |-> FALSE,
     result |-> IF TemplateThrows(appId) THEN <<>>
                ELSE IF fn = "fetchReviewsFromPage"
                THEN fetchReviewsFromPage(outcome, limit)
                ELSE fetchReviewsAlternative(outcome, limit),
     info |-> <<>>]

Informed(appId, outcome) ==
    LET r == getAppInfo(appId, outcome)
    IN  [fn |-> "getAppInfo", appId |-> appId, outcome |-> outcome, limit |-> NaN,
         requests |-> r.requests, threw |-> r.threw, result |-> <<>>,
         info |-> IF r.threw THEN <<>> ELSE <<r.info>>]

\* fetchReviewsFromPage(appId, {limit}) is called and its request ends
FetchFromPage ==
    /\ Len(calls) < MaxCalls
    /\ calls' = Append(calls, Retrieved("fetchReviewsFromPage", request.appId,
                                        request.outcome, request.limit))
    /\ UNCHANGED <<request, upstream, phase, tasks, wire, results, errors,
                   response, sent, clock>>

\* fetchReviewsAlternative(appId, {limit}) is called and its request ends
FetchAlternative ==
    /\ Len(calls) < MaxCalls
    /\ calls' = Append(calls, Retrieved("fetchReviewsAlternative", request.appId,
                                        request.outcome, request.limit))
    /\ UNCHANGED <<request, upstream, phase, tasks, wire, results, errors,
                   response, sent, clock>>

\* getAppInfo(appId) is called and its request ends
GetAppInfo ==
    /\ Len(calls) < MaxCalls
    /\ calls' = Append(calls, Informed(request.appId, request.outcome))
    /\ UNCHANGED <<request, upstream, phase, tasks, wire, results, errors,
                   response, sent, clock>>

NextRetrieval == FetchFromPage \/ FetchAlternative \/ GetAppInfo

InitRetrieval ==
    /\ request \in {RetrievalCall(appId, outcome, limit) :
                       appId \in {ComWhatsapp,
                                  AppIdString(<<Run("a", 1), Run("1", 1), Run("b", 1)>>),
                                  ToStringId, SymbolId},
                       outcome \in RetrievalOutcomes,
                       limit \in {Num(1), Num(3), Num(50)}}
    /\ upstream = <<>>
    /\ phase = "retrieval"
    /\ tasks = <<>>
    /\ wire = <<>>
    /\ results = <<>>
    /\ errors = <<>>
    /\ response = NoResponse
    /\ sent = 0
    /\ calls = <<>>
    /\ clock = 1

SpecRetrieval == InitRetrieval /\ [][NextRetrieval]_vars

\* ------------------------------------------------------------------------
\* Properties
\* ------------------------------------------------------------------------

Tasks == 1..Len(tasks)

Returned(i) == tasks[i].pc = "returned"

\* the upstream requests fetch i has issued, in order
RequestsOf(i) == SelectSeq(wire, LAMBDA r : r.task = i)

Strategies(i) == [n \in 1..Len(RequestsOf(i)) |-> RequestsOf(i)[n].strategy]

\* C1: a fetchComments call with an integer limit >= 1 returns at least one
\* record, whatever the primary and secondary requests ended with.
C1_NeverEmpty ==
    \A i \in Tasks :
        (Returned(i) /\ ~tasks[i].limit.nan /\ tasks[i].limit.v >= 1)
            => Len(tasks[i].comments) >= 1

\* both requests failed or yielded nothing, limit 1: one sample record
C1_Witness ==
    \E i \in Tasks :
        /\ Returned(i) /\ tasks[i].by = "sample"
        /\ ~tasks[i].limit.nan /\ tasks[i].limit.v = 1
        /\ Len(tasks[i].comments) = 1

\* C2: the array fetchComments returns is never longer than limit, for every
\* limit a caller or a handler passes.  No array has a negative length, so for
\* a negative limit the statement is read as asking for the empty array, and
\* a NaN limit (which compares false with everything) is left out.
C2_AtMostLimit ==
    \A i \in Tasks :
        (Returned(i) /\ ~tasks[i].limit.nan)
            => Len(tasks[i].comments) <= Max(tasks[i].limit.v, 0)

\* C3: fetchComments never raises, for every options value.
C3_NeverRaises == \A i \in Tasks : tasks[i].pc # "threw"

\* C4: a fetchComments call issues its primary request first, its secondary
\* request exactly when the primary retrieval yielded no record, at most
\* these two requests, and returns sample records only when both retrievals
\* yielded none.
C4_FixedOrder ==
    \A i \in Tasks :
        /\ Strategies(i) \in {<<>>, <<"primary">>, <<"primary", "secondary">>}
        /\ tasks[i].pc # "threw" => Len(Strategies(i)) >= 1
        /\ Len(Strategies(i)) = 2 <=> tasks[i].primary = 0
        /\ (Returned(i) /\ tasks[i].by = "sample")
              => (tasks[i].primary = 0 /\ tasks[i].secondary = 0)
        /\ \A n \in 1..Len(RequestsOf(i)) :
              RequestsOf(i)[n].open => n = Len(RequestsOf(i))

\* the primary yielded nothing and the secondary supplied the result
C4_Witness ==
    \E i \in Tasks :
        /\ Returned(i) /\ tasks[i].by = "secondary"
        /\ tasks[i].primary = 0 /\ tasks[i].secondary >= 1
        /\ Strategies(i) = <<"primary", "secondary">>

\* ---- validation -------------------------------------------------------

RECURSIVE Characters(_)
Characters(runs) ==
    IF runs = <<>> THEN <<>>
    ELSE [n \in 1..Head(runs).n |-> Head(runs).c] \o Characters(Tail(runs))

\* the identifier grammar: 3 to 100 characters, a letter or digit first, then
\* letters, digits, dots, underscores and hyphens, with no "..", "__" or "--"
InGrammar(appId) ==
    /\ appId.t = "string"
    /\ LET cs == Characters(appId.runs)
       IN  /\ Len(cs) >= 3 /\ Len(cs) <= 100
           /\ cs[1] \in AlphaNum
           /\ \A n \in 1..Len(cs) : cs[n] \in AlphaNum \cup {".", "_", "-"}
           /\ \A n \in 1..(Len(cs) - 1) :
                 ~(cs[n] = cs[n + 1] /\ cs[n] \in {".", "_", "-"})

IsGet == request.route \in {"single", "stats"}

HandlerReached == tasks # <<>>

\* C5: validateAppId lets a GET through exactly when appId is in the
\* identifier grammar; any other appId is answered 400 "Invalid app ID format"
\* and neither the handler nor fetchComments is reached.
C5_ValidateAppId ==
    (IsGet /\ phase # "pending") =>
        IF InGrammar(request.appId)
        THEN HandlerReached /\ response.status # 400
        ELSE /\ response.status = 400
             /\ response.error = "Invalid app ID format"
             /\ ~HandlerReached
             /\ wire = <<>>

\* invalid..id is refused
C5_Witness ==
    /\ IsGet /\ phase = "responded"
    /\ request.appId = InvalidDotDot
    /\ response.status = 400 /\ response.error = "Invalid app ID format"

\* limit is given and is not an integer of lo..hi
LimitOutside(limit, lo, hi) ==
    /\ limit.t # "undefined"
    /\ LET n == parseInt(limit) IN n.nan \/ n.v < lo \/ n.v > hi

\* C6: a GET whose limit is outside 1..200 is answered 400 and fetchComments
\* is not invoked for it.
C6_LimitValidated ==
    (IsGet /\ phase # "pending" /\ LimitOutside(request.query.limit, 1, 200))
        => (response.status = 400 /\ ~HandlerReached)

BatchIds == request.body.appIds.items

\* C7: a batch whose body has a malformed identifier, a limit outside 1..100
\* or an unknown sort is answered 400, and every identifier that reaches
\* fetchComments is in the identifier grammar.
C7_BatchValidated ==
    (request.route = "batch" /\ phase # "pending") =>
        /\ \A i \in Tasks : InGrammar(tasks[i].appId)
        /\ ( /\ IsArray(request.body.appIds)
             /\ \/ \E n \in 1..Len(BatchIds) : ~InGrammar(BatchIds[n])
                \/ LimitOutside(request.body.limit, 1, 100)
                \/ /\ request.body.sort.t # "undefined"
                   /\ request.body.sort.s \notin {"recent", "rating", "helpfulness"} )
           => (response.status = 400 /\ ~HandlerReached)

\* ---- batch ------------------------------------------------------------

BatchAnswered ==
    request.route = "batch" /\ phase = "responded" /\ response.status = 200

\* C8: in every batch response successful + failed = totalApps: results and
\* errors together hold as many entries as appIds has identifiers.
C8_BatchCounts ==
    BatchAnswered =>
        /\ response.data.successful + response.data.failed = response.data.totalApps
        /\ Len(response.data.results) + Len(response.data.errors) = Len(BatchIds)

\* a batch of two identifiers has been answered
C8_Witness == BatchAnswered /\ Len(BatchIds) = 2 /\ response.data.totalApps = 2

\* the identifiers of the batch for which the upstream is unreachable
UnreachableIds == {n \in 1..Len(upstream) : upstream[n] = "unreachable"}

TenWithOneUnreachable ==
    /\ request.route = "batch" /\ phase = "responded"
    /\ Len(BatchIds) = 10
    /\ \A n \in 1..10 : InGrammar(BatchIds[n])
    /\ Cardinality(UnreachableIds) = 1

\* C9, as stated: the batch of ten with one unreachable identifier is
\* answered 200 with that identifier in errors[] (failed = 1) and the other
\* nine in results[].
C9_UnreachableInErrors ==
    TenWithOneUnreachable =>
        /\ response.status = 200
        /\ response.data.failed = 1
        /\ \A u \in UnreachableIds :
              \E n \in 1..Len(response.data.errors) :
                  response.data.errors[n].appId = BatchIds[u]
        /\ Len(response.data.results) = 9

\* C9, amended: the batch is answered 200 with all ten identifiers in
\* results[] and none in errors[] (failed = 0); the entry of the unreachable
\* identifier holds sample records.
C9_UnreachableGetsSample ==
    TenWithOneUnreachable =>
        /\ response.status = 200 /\ response.success
        /\ response.data.failed = 0 /\ response.data.errors = <<>>
        /\ response.data.successful = 10
        /\ \A u \in UnreachableIds :
              \E n \in 1..Len(response.data.results) :
                  LET entry == response.data.results[n]
                  IN  /\ entry.appId = BatchIds[u]
                      /\ entry.totalComments >= 1
                      /\ \A c \in 1..Len(entry.comments) :
                            entry.comments[c].source = "sample"

C9_Witness == TenWithOneUnreachable /\ response.status = 200

\* ---- isolation of the fetches of a batch ------------------------------

IsPrefix(a, b) == Len(a) <= Len(b) /\ SubSeq(b, 1, Len(a)) = a

BatchStructureOk ==
    /\ request.route = "batch"
    /\ IsArray(request.body.appIds)
    /\ Len(BatchIds) >= 1 /\ Len(BatchIds) <= 10

\* the entry the handler owes fetch i once it has returned
OwnEntry(i) ==
    [appId |-> BatchIds[i], success |-> TRUE,
     totalComments |-> Len(tasks[i].comments), comments |-> tasks[i].comments]

C10_Answer ==
    (BatchStructureOk /\ phase = "responded") =>
        /\ response.status = 200 /\ response.success
        /\ \A i \in 1..Len(BatchIds) :
              /\ Settled(tasks[i])
              /\ Returned(i) =>
                    \E n \in 1..Len(response.data.results) :
                        response.data.results[n] = OwnEntry(i)

C10_Step ==
    (BatchStructureOk /\ phase = "running") =>
        /\ Len(tasks') = Len(tasks)
        /\ Cardinality({j \in Tasks : tasks'[j] # tasks[j]}) <= 1
        /\ \A j \in Tasks : Settled(tasks[j]) => tasks'[j] = tasks[j]
        /\ IsPrefix(results, results')
        /\ IsPrefix(errors, errors')

\* C10: once the structural checks on appIds pass, the batch is answered 200
\* with success true whatever each fetch ended with, and the end of one fetch
\* changes neither another fetch nor the entry already produced for another
\* identifier: every identifier gets the entry of its own fetch.
C10_Isolation == []C10_Answer /\ [][C10_Step]_vars

\* answered with one identifier served by the upstream and the other, whose
\* requests both failed, by the sample generator
C10_Witness ==
    /\ BatchAnswered
    /\ \E i, j \in Tasks : tasks[i].by = "primary" /\ tasks[j].by = "sample"

\* ---- the structural checks of the batch handler ------------------------

\* appIds is missing, not an array, empty, or longer than 10
BadAppIds ==
    /\ request.route = "batch"
    /\ \/ ~IsArray(request.body.appIds)
       \/ Len(BatchIds) = 0
       \/ Len(BatchIds) > 10

TooManyAppIds ==
    request.route = "batch" /\ IsArray(request.body.appIds) /\ Len(BatchIds) > 10

\* C11: a batch whose appIds is missing, not an array, empty or longer than 10
\* is answered 400 (for more than 10 with the error that names the maximum of
\* 10 apps), with exactly one response sent, no fetchComments call started and
\* no upstream request issued.
C11_BadAppIdsRefused ==
    (BadAppIds /\ phase # "pending") =>
        /\ response.status = 400 /\ ~response.success
        /\ sent = 1
        /\ tasks = <<>> /\ wire = <<>>
        /\ TooManyAppIds =>
              response.error = "Maximum 10 apps allowed per batch request"

\* eleven identifiers have been refused
C11_Witness ==
    /\ TooManyAppIds /\ Len(BatchIds) = 11
    /\ phase = "responded" /\ response.status = 400 /\ sent = 1

\* ---- the join of the batch handler ------------------------------------

C12_Joined ==
    (request.route = "batch" /\ response.status = 200) =>
        /\ sent = 1
        /\ Len(tasks) = Len(BatchIds)
        /\ \A i \in Tasks : Settled(tasks[i])
        /\ response.data.results = results
        /\ response.data.errors = errors

C12_Final ==
    (request.route = "batch" /\ sent >= 1) =>
        /\ results' = results /\ errors' = errors
        /\ response' = response /\ sent' = sent

\* C12: the batch handler responds only once the fetch of every identifier
\* has settled; after the response nothing is added to results[] or errors[],
\* which stay as the response shows them, and no second response is sent.
C12_RespondsAfterAll == []C12_Joined /\ [][C12_Final]_vars

\* a batch of two has been answered after the second fetch went to its
\* secondary request while the first had long settled
C12_Witness ==
    /\ BatchAnswered /\ Len(BatchIds) = 2
    /\ Strategies(1) = <<"primary">> /\ Strategies(2) = <<"primary", "secondary">>
    /\ Len(results) = 2

\* ---- failures that reach the client ------------------------------------

\* the request is refused by the validation its route runs
ValidationFailed ==
    \/ IsGet /\ ~InGrammar(request.appId)
    \/ BadAppIds

\* C13: a request that passes validation is answered 200 with success true
\* whatever its upstream requests ended with (network failure, timeout,
\* non-2xx status, a body that is not markup or holds no review); an answer
\* of 400 is given only to a validation failure and one of 500 only when a
\* fetch raised inside the handler.
C13_UpstreamAbsorbed ==
    (request.route # "call" /\ phase = "responded") =>
        /\ response.status \in {200, 400, 500}
        /\ ~ValidationFailed => (response.status = 200 /\ response.success)
        /\ response.status = 400 => ValidationFailed
        /\ response.status = 500 => \E i \in Tasks : tasks[i].pc = "threw"

\* a statistics request answered 200 after both of its upstream requests
\* yielded nothing
C13_Witness ==
    /\ request.route = "stats" /\ phase = "responded"
    /\ response.status = 200 /\ response.success
    /\ tasks[1].primary = 0 /\ tasks[1].secondary = 0 /\ tasks[1].by = "sample"
    /\ Strategies(1) = <<"primary", "secondary">>

\* ---- statistics --------------------------------------------------------

StatsAnswered ==
    request.route = "stats" /\ phase = "responded" /\ response.status = 200

\* the sum of f over keys
RECURSIVE SumOver(_, _)
SumOver(f, keys) ==
    IF keys = {} THEN 0
    ELSE LET k == CHOOSE x \in keys : TRUE
         IN  f[k] + SumOver(f, keys \ {k})

\* how many of comments carry the rating r
Rated(comments, r) == Cardinality({n \in 1..Len(comments) : comments[n].rating = r})

\* C14: in a statistics response the counts of ratingDistribution sum to
\* totalComments, which is the number of records fetched, and every bucket
\* holds the number of records with its rating (bucket 0: rating unknown).
C14_DistributionSums ==
    StatsAnswered =>
        LET st == response.data.stats
            dist == st.ratingDistribution
        IN  /\ st.totalComments = Len(tasks[1].comments)
            /\ SumOver(dist, DOMAIN dist) = st.totalComments
            /\ \A r \in 0..5 :
                  IF r \in DOMAIN dist THEN dist[r] = Rated(tasks[1].comments, r)
                  ELSE Rated(tasks[1].comments, r) = 0

\* statistics over records extracted from a page, one of them of unknown rating
C14_Witness ==
    /\ StatsAnswered /\ tasks[1].by = "primary"
    /\ response.data.stats.totalComments >= 2
    /\ 0 \in DOMAIN response.data.stats.ratingDistribution
    /\ 5 \in DOMAIN response.data.stats.ratingDistribution

Abs(x) == IF x < 0 THEN 0 - x ELSE x

\* the value averageRating denotes: 0 for no record, else a nearest hundredth
\* to the quotient of the sum of the ratings by their number; totalRating is
\* that sum
C15_Value ==
    StatsAnswered =>
        LET st == response.data.stats
            n == Len(tasks[1].comments)
            sum == SumRatings(tasks[1].comments)
        IN  /\ st.totalRating = sum
            /\ IF n = 0 THEN st.averageRating.hundredths = 0
               ELSE 2 * Abs(st.averageRating.hundredths * n - 100 * sum) <= n

\* averageRating is a number, not the string toFixed makes
C15_IsNumber == StatsAnswered => ~response.data.stats.averageRating.fixed

\* C15: in every statistics response averageRating is 0 when there is no
\* record and otherwise the sum of the ratings divided by their number,
\* rounded to 2 decimal places; totalRating is that sum.
C15_AverageRating == C15_Value /\ C15_IsNumber

\* ---- the records returned ----------------------------------------------

\* the records of the arrays that fetchComments calls have returned, each of
\* them the array of a retrieval (so of the extraction engine) or of the
\* sample generator
ReturnedRecords ==
    UNION { {tasks[i].comments[n] : n \in 1..Len(tasks[i].comments)} :
              i \in {j \in Tasks : Returned(j)} }

\* C16: every record returned has a text, and the text is not empty: a
\* candidate with an empty text is dropped during extraction.
C16_TextPresent ==
    \A c \in ReturnedRecords : "text" \in DOMAIN c /\ c.text # ""

\* the page with five containers (one of them without any text, one with a
\* text too short, one the navigation bar) has yielded its two reviews
C16_Witness ==
    \E i \in Tasks :
        /\ Returned(i) /\ tasks[i].by = "primary"
        /\ Len(tasks[i].comments) = 2
        /\ \A n \in 1..2 : tasks[i].comments[n].source = "html"

\* C17: every record returned has an integer rating of 0..5; a rating found
\* in the markup that is outside 1..5 has become 0.
C17_RatingInRange ==
    \A c \in ReturnedRecords :
        /\ c.rating \in 0..5
        /\ (c.source = "html" /\ c.text = "Terrible update, ruined it") => c.rating = 0

\* the container whose markup gives the rating 9 has been returned, rated 0
C17_Witness ==
    \E c \in ReturnedRecords :
        c.source = "html" /\ c.text = "Terrible update, ruined it" /\ c.rating = 0

\* ---- the sample generator on its own ----------------------------------

Generations == {n \in 1..Len(calls) : calls[n].fn = "generateSampleReviews"}

\* what a call returned is a prefix of the pool, in pool order, every entry
\* tagged as sample
C18_PoolPrefix ==
    \A n \in Generations :
        /\ IsPrefix(calls[n].result, sampleReviews)
        /\ \A k \in 1..Len(calls[n].result) : calls[n].result[k].source = "sample"

\* calls with the same limit returned the same, whatever the application and
\* whatever was called before
C18_LimitOnly ==
    \A n, m \in Generations :
        calls[n].limit = calls[m].limit => calls[n].result = calls[m].result

\* a call returned min(limit, 10) entries; none for a limit below 0, which no
\* number of entries can equal (a NaN limit is left out)
C18_Count ==
    \A n \in Generations :
        ~calls[n].limit.nan =>
            Len(calls[n].result) = Max(Min(calls[n].limit.v, Len(sampleReviews)), 0)

\* C18: generateSampleReviews(appId, limit) returns exactly the first
\* min(limit, 10) entries of the pool of ten in pool order, each tagged with
\* the source sample, and the result depends on limit alone.
C18_SampleReviews == C18_PoolPrefix /\ C18_LimitOnly /\ C18_Count

\* ---- the extraction engine on its own ---------------------------------

Extractions == {n \in 1..Len(calls) : calls[n].fn = "extractReviewsFromHTML"}

\* the markup without its script blocks
WithoutScripts(html) ==
    Markup(SelectSeq(html.elements, LAMBDA e : e.k # "script"))

\* C19: extractReviewsFromHTML returns an array for every markup and every
\* limit: the empty one for a value that is not a string, and for markup
\* whose script blocks make the embedded-data strategy fail the very records
\* that the markup without those blocks gives (the failed strategy adds
\* nothing and the strategies after it still add theirs).
C19_NeverThrows ==
    \A n \in Extractions :
        LET c == calls[n]
        IN  /\ DOMAIN c.result = 1..Len(c.result)
            /\ c.html.t # "string" => c.result = <<>>
            /\ c.html.t = "string" =>
                  c.result = OnDate(extractReviewsFromHTML(WithoutScripts(c.html),
                                                           c.limit), Days[c.day])

\* the page with two script blocks that fail to parse has yielded the records
\* of its two containers and of its bare text fields
C19_Witness ==
    \E n \in Extractions :
        /\ calls[n].html = BodyBroken /\ calls[n].limit = Num(10)
        /\ Len(calls[n].result) = 4
        /\ calls[n].result[2].source = "html" /\ calls[n].result[2].rating = 1
        /\ calls[n].result[4].source = "api"

ScriptsOnly(html) ==
    /\ html.t = "string" /\ html.elements # <<>>
    /\ \A k \in 1..Len(html.elements) : html.elements[k].k = "script"

\* the entries of an embedded array that have text or reviewText populated
Populated(entries) ==
    SelectSeq(entries, LAMBDA review : review.text # "" \/ review.reviewText # "")

\* a record carries the fields of an entry under their canonical names
Carries(record, review) ==
    /\ record.text = (IF review.text # "" THEN review.text ELSE review.reviewText)
    /\ record.rating = (IF review.rating # 0 THEN review.rating ELSE review.starRating)
    /\ record.author = (IF review.author # "" THEN review.author
                        ELSE IF review.userName # "" THEN review.userName
                        ELSE "Unknown")
    /\ record.helpful = (IF review.helpful # 0 THEN review.helpful
                         ELSE review.helpfulCount)

\* C21: for markup with a script block that holds a well-formed reviews
\* array, the engine returns one record for each entry of the array that has
\* text or reviewText populated, up to limit, with the fields of the entry
\* under their canonical names.
C21_EmbeddedData ==
    \A n \in Extractions :
        LET c == calls[n]
        IN  (ScriptsOnly(c.html) /\ ~c.limit.nan /\ c.limit.v >= 1) =>
                LET entries == Populated(c.html.elements[1].entries)
                    count == Min(c.limit.v, Len(entries))
                IN  /\ Len(c.result) >= count
                    /\ \A k \in 1..count : Carries(c.result[k], entries[k])

\* the markup holds bare text fields and nothing else
TextsOnly(html) ==
    /\ html.t = "string" /\ html.elements # <<>>
    /\ \A k \in 1..Len(html.elements) : html.elements[k].k = "reviewText"

\* C22: for markup with n quoted values keyed by reviewText and nothing the
\* other strategies match, the engine returns min(n, limit) records, the k-th
\* with the k-th quoted value as its text, rating 0 and author Unknown.
C22_BareTextFields ==
    \A n \in Extractions :
        LET c == calls[n]
        IN  (TextsOnly(c.html) /\ ~c.limit.nan /\ c.limit.v >= 0) =>
                /\ Len(c.result) = Min(c.limit.v, Len(c.html.elements))
                /\ \A k \in 1..Len(c.result) :
                      /\ c.result[k].text = c.html.elements[k].value
                      /\ c.result[k].rating = 0
                      /\ c.result[k].author = "Unknown"

\* ---- the composition of the strategies --------------------------------

\* the records strategy i extracts from the markup, in match order
StrategyRecords(html, i, limit) ==
    LET matches == HtmlMatch(html, reviewPatterns[i])
    IN  IF matches = <<>> THEN <<>>
        ELSE processReviewMatches(matches, reviewPatterns[i], limit)

\* the records of strategies 1 to i, one strategy after the other
RECURSIVE UpToStrategy(_, _, _)
UpToStrategy(html, i, limit) ==
    IF i = 0 THEN <<>>
    ELSE UpToStrategy(html, i - 1, limit) \o StrategyRecords(html, i, limit)

\* the first limit records of s (none for a limit that is not positive)
FirstRecords(s, limit) ==
    IF limit.nan \/ limit.v <= 0 THEN <<>>
    ELSE SubSeq(s, 1, Min(limit.v, Len(s)))

\* the running total has reached limit
Reached(total, limit) == ~limit.nan /\ total >= limit.v

\* C23: the engine returns the first limit records of the records of
\* strategies 1 to 4 put one after the other, each strategy's in match order
\* and none removed as a duplicate; a strategy with matches is run exactly
\* when the strategies run before it have not brought the total to limit.
C23_StrategyOrder ==
    \A n \in Extractions :
        LET c == calls[n]
        IN  c.html.t = "string" =>
              /\ c.result = OnDate(FirstRecords(UpToStrategy(c.html, 4, c.limit),
                                                c.limit), Days[c.day])
              /\ \A i \in 1..4 :
                    (\E k \in 1..Len(c.ran) : c.ran[k] = i) <=>
                        /\ HtmlMatch(c.html, reviewPatterns[i]) # <<>>
                        /\ \A j \in 1..(i - 1) :
                              HtmlMatch(c.html, reviewPatterns[j]) # <<>> =>
                                  ~Reached(Len(UpToStrategy(c.html, j, c.limit)), c.limit)

\* one page extracted with limit 3 and with limit 1: with 3, the container
\* that strategies 1 and 3 both match comes twice and strategy 4 adds the
\* third record; with 1, strategy 1 alone is run
C23_Witness ==
    \E n, m \in Extractions :
        /\ calls[n].html = BodyMixed /\ calls[n].limit = Num(3)
        /\ Len(calls[n].result) = 3 /\ calls[n].ran = <<1, 3, 4>>
        /\ calls[n].result[1] = calls[n].result[2]
        /\ calls[n].result[3].source = "api"
        /\ calls[m].html = BodyMixed /\ calls[m].limit = Num(1)
        /\ Len(calls[m].result) = 1 /\ calls[m].ran = <<1>>


\* ---- the retrieval strategies on their own ------------------------------

Retrievals ==
    {n \in 1..Len(calls) :
        calls[n].fn \in {"fetchReviewsFromPage", "fetchReviewsAlternative"}}

\* the request of the call got a response with status 200
Answered200(c) ==
    /\ c.requests = 1
    /\ c.outcome.kind = "response"
    /\ c.outcome.status = 200

\* C24: each retrieval strategy resolves to an array whatever its request
\* ends with: the empty one when the URL could not be built, on a network
\* error, on a timeout, on a status other than 200 and on a body nothing can
\* be extracted from, and otherwise the records extracted from the body; it
\* never raises.
C24_StrategiesResolve ==
    \A n \in Retrievals :
        LET c == calls[n]
        IN  /\ ~c.threw
            /\ DOMAIN c.result = 1..Len(c.result)
            /\ ~Answered200(c) => c.result = <<>>
            /\ Answered200(c) /\ c.outcome.data.t # "string" => c.result = <<>>
            /\ Answered200(c) =>
                  c.result = extractReviewsFromHTML(c.outcome.data, c.limit)

\* both strategies met a 404 whose body holds reviews, a third call too
C24_Witness ==
    /\ Len(calls) = 3
    /\ request.outcome = Http(404, BodyDivs)
    /\ extractReviewsFromHTML(request.outcome.data, request.limit) # <<>>
    /\ \E n \in Retrievals : calls[n].fn = "fetchReviewsFromPage" /\ calls[n].result = <<>>
    /\ \E n \in Retrievals : calls[n].fn = "fetchReviewsAlternative" /\ calls[n].result = <<>>

\* ---- getAppInfo on its own ----------------------------------------------

AppInfos == {n \in 1..Len(calls) : calls[n].fn = "getAppInfo"}

\* the name the claim gives the canned metadata of an identifier
CannedName(appId) ==
    IF appId \in DOMAIN appNames THEN appNames[appId] ELSE "Sample App"

\* the elements of a body that carry the given kind of value
Carrying(data, kind) ==
    IF data.t # "string" THEN <<>>
    ELSE SelectSeq(data.elements,
                   LAMBDA e : \/ e.k = "h1" /\ kind = "name"
                              \/ e.k = "field" /\ e.key = kind
                              \/ e.k = "div" /\ kind = "rating" /\ e.rating >= 0
                              \/ e.k = "script" /\ kind = "rating" /\ RatedEntries(e) # <<>>)

\* C26: getAppInfo sends one request and never raises; on a network error, a
\* timeout or a status other than 200 it returns the canned metadata named
\* after appId, 'Sample App' when the table does not list it; on a 200 it
\* returns the extracted record, whose fields are the defaults ('Unknown',
\* 0) wherever the body holds nothing to parse them from.
C26_AppInfo ==
    \A n \in AppInfos :
        LET c == calls[n]
        IN  /\ ~c.threw
            /\ c.requests = 1
            /\ Len(c.info) = 1
            /\ ~Answered200(c) =>
                  /\ c.info[1].name = CannedName(c.appId)
                  /\ c.info[1].developer = "Sample Developer"
                  /\ c.info[1].rating = 42
            /\ Answered200(c) =>
                  /\ c.info[1].category = "Unknown"
                  /\ c.info[1].downloads = "Unknown"
                  /\ c.info[1].size = "Unknown"
                  /\ c.info[1].version = "Unknown"
                  /\ Carrying(c.outcome.data, "name") = <<>> => c.info[1].name = "Unknown"
                  /\ Carrying(c.outcome.data, "developer") = <<>> =>
                        c.info[1].developer = "Unknown"
                  /\ Carrying(c.outcome.data, "rating") = <<>> => c.info[1].rating = 0
                  /\ Carrying(c.outcome.data, "totalRatings") = <<>> =>
                        c.info[1].totalRatings = 0


\* ---- the upstream requests of a batch -----------------------------------

\* the requests of fetch i that are open
OpenRequests(i) == {n \in 1..Len(wire) : wire[n].task = i /\ wire[n].open}

AllOpenRequests == {n \in 1..Len(wire) : wire[n].open}

\* the batch handler has started its fetches
BatchStarted == request.route = "batch" /\ tasks # <<>>

C25_Bounded ==
    BatchStarted =>
        /\ Len(tasks) = Len(request.body.appIds.items)
        /\ Len(tasks) <= MaxBatchApps
        /\ Len(wire) >= Len(tasks)
        /\ \A i \in 1..Len(tasks) :
              /\ wire[i].task = i /\ wire[i].strategy = "primary"
              /\ Cardinality(OpenRequests(i)) <= 1
              /\ \A n \in 1..Len(wire) :
                    wire[n].task = i /\ wire[n].strategy = "secondary" =>
                        n > Len(tasks) /\ ~wire[i].open
        /\ Cardinality(AllOpenRequests) <= Len(tasks)

\* the step that starts the fetches leaves every primary request open
C25_IssuedTogether ==
    tasks = <<>> /\ tasks' # <<>> =>
        /\ Len(wire') = Len(tasks')
        /\ \A i \in 1..Len(tasks') :
              wire'[i].task = i /\ wire'[i].strategy = "primary" /\ wire'[i].open

\* C25: the fetches of a batch run concurrently: the primary request of every
\* identifier is issued before any request has ended, a fetch has at most
\* one request open (its secondary is issued only once its primary has
\* ended), and so no more than appIds.length <= 10 requests are open at once.
C25_Concurrent == []C25_Bounded /\ [][C25_IssuedTogether]_vars

\* ten requests open at once, one of them the secondary of a fetch whose
\* primary has ended
C25_Witness ==
    /\ BatchStarted
    /\ Len(tasks) = MaxBatchApps
    /\ Cardinality(AllOpenRequests) = MaxBatchApps
    /\ \E n \in AllOpenRequests : wire[n].strategy = "secondary"


\* ---- concurrent fetches share nothing -----------------------------------

\* the limit the batch handler passes to every fetch
BatchLimit == parseInt(OrDefault(request.body.limit, JsNumber(Num(BatchDefaultLimit))))

\* what fetch i returns by its own arguments and by what the upstream does
\* with its own requests: a page of reviews served, or no response at all
OwnResult(i) ==
    IF upstream[i] = "serving"
    THEN extractReviewsFromHTML(BodyDivs, BatchLimit)
    ELSE generateSampleReviews(BatchIds[i], BatchLimit)

Tags(i) == {tasks[i].comments[n].source : n \in 1..Len(tasks[i].comments)}

\* C28: the array a fetchComments call returns is either all sample records,
\* and then both retrievals had yielded no record, or all records tagged api
\* or html that one retrieval yielded: the primary, the secondary not having
\* been tried, or the secondary, the primary having yielded none.
C28_Provenance ==
    \A i \in Tasks :
        Returned(i) =>
            \/ /\ Tags(i) \subseteq {"sample"}
               /\ tasks[i].by = "sample"
               /\ tasks[i].primary = 0 /\ tasks[i].secondary = 0
               /\ Strategies(i) = <<"primary", "secondary">>
            \/ /\ Tags(i) \subseteq {"api", "html"} /\ Tags(i) # {}
               /\ tasks[i].by = "primary"
               /\ tasks[i].primary = Len(tasks[i].comments)
               /\ Strategies(i) = <<"primary">>
            \/ /\ Tags(i) \subseteq {"api", "html"} /\ Tags(i) # {}
               /\ tasks[i].by = "secondary"
               /\ tasks[i].primary = 0
               /\ tasks[i].secondary = Len(tasks[i].comments)
               /\ Strategies(i) = <<"primary", "secondary">>

\* one fetch of a batch returned the records of its secondary retrieval,
\* fewer than its limit, and another the sample records
C28_Witness ==
    \E i, j \in Tasks :
        /\ Returned(i) /\ tasks[i].by = "secondary"
        /\ Tags(i) = {"html"}
        /\ tasks[i].limit.v > Len(tasks[i].comments)
        /\ Returned(j) /\ tasks[j].by = "sample" /\ Tags(j) = {"sample"}


\* ---- the entries of a batch response ------------------------------------

\* the positions of seq that carry the identifier id
Positions(seq, id) == {n \in 1..Len(seq) : seq[n].appId = id}

C29_Answer ==
    BatchAnswered =>
        LET entries == response.data.results \o response.data.errors
            ids == [n \in 1..Len(BatchIds) |-> [appId |-> BatchIds[n]]]
        IN  /\ Len(entries) = Len(BatchIds)
            /\ \A p \in 1..Len(BatchIds) :
                  Cardinality(Positions(entries, BatchIds[p]))
                      = Cardinality(Positions(ids, BatchIds[p]))

C29_Step ==
    (request.route = "batch" /\ tasks # <<>>) =>
        LET ending == {i \in Tasks : ~Settled(tasks[i]) /\ Settled(tasks'[i])}
        IN  /\ ending = {} => results' = results /\ errors' = errors
            /\ \A i \in ending :
                  \/ /\ Len(results') = Len(results) + 1
                     /\ IsPrefix(results, results')
                     /\ results'[Len(results')].appId = BatchIds[i]
                     /\ results'[Len(results')].comments = tasks'[i].comments
                     /\ errors' = errors
                  \/ /\ Len(errors') = Len(errors) + 1
                     /\ IsPrefix(errors, errors')
                     /\ errors'[Len(errors')].appId = BatchIds[i]
                     /\ results' = results

\* C29: the response of a batch holds, in results[] and errors[] together,
\* one entry per position of appIds, carrying the identifier of the position
\* (as many entries for an identifier as appIds repeats it), whatever the
\* order the fetches end in; each fetch that ends puts its entry last, so
\* the entries are in the order of completion, not in that of appIds.
C29_OneEntryEach == []C29_Answer /\ [][C29_Step]_vars

\* an identifier given twice has two entries, that of the second position
\* first, since its fetch ended first
C29_Witness ==
    /\ BatchAnswered
    /\ Len(BatchIds) = 2 /\ BatchIds[1] = BatchIds[2]
    /\ Len(response.data.results) = 2
    /\ tasks[1].comments # tasks[2].comments
    /\ response.data.results[1].comments = tasks[2].comments
    /\ response.data.results[2].comments = tasks[1].comments

====
